---- MODULE Spec2Model ----
(***************************************************************************)
(* Model of the pipeline orchestrator of "etl pipeline/main_pipeline.py":  *)
(* ETLPipeline.__init__, ETLPipeline.run and _save_pipeline_metrics.       *)
(* The Extractor, Transformer and Loader are collaborators whose code is   *)
(* not part of the orchestrator: each call either returns a value or       *)
(* raises, and the model draws that outcome nondeterministically.          *)
(***************************************************************************)
EXTENDS Integers, Sequences, FiniteSets, TLC

VARIABLES pipeline_metrics, pc, loc, clock, files, writes, calls,
          phases_done, run_no, instance_no, result, outcome, prev_errors,
          args, exit_code, tr, app

\* the state of the orchestrator and of main()
pipelineVars == <<pipeline_metrics, pc, loc, clock, files, writes, calls,
                  phases_done, run_no, instance_no, result, outcome,
                  prev_errors, args, exit_code>>

vars == <<pipeline_metrics, pc, loc, clock, files, writes, calls,
          phases_done, run_no, instance_no, result, outcome, prev_errors,
          args, exit_code, tr, app>>

----------------------------------------------------------------------------
(* Bounds *)

\* run() calls made one after the other when run() is used as a library call
MaxRuns == 2
\* the clock shows seconds 0..MaxClock (strftime("%Y%m%d_%H%M%S") resolution)
MaxClock == 1
\* rows of a table returned by a fetch or by transform_and_merge
MaxRows == 1
\* null cells a merged table may hold
MaxNulls == 1

\* columns of the merged table (date and ridership)
MergedCols == 2

\* rows of a raw table handed to transform_and_merge
MaxInputRows == 2
\* the raw tables carry the dates 1..MaxDate
MaxDate == 2

\* table lengths over which the metric formulas are evaluated
MetricRows == 3

\* rows of a table the dashboard's extractor hands back
MaxFetchedRows == 1

\* the calendar day (as a day number) on which the model's clock runs
Today == 1000
\* how far before / after Today a date given on the command line may lie
MaxDateOffset == 400

----------------------------------------------------------------------------
(* Values *)

\* Python None for a timestamp
None == -1

\* timedelta(days=365)
DaysBack == 365

\* datetime.now().strftime("%Y-%m-%d"): the day of the clock reading; dates
\* are day numbers, the strings "%Y-%m-%d" order and subtract as they do
DateOf(now) == Today

\* the values run() may get for start_date and for end_date
StartDateArgs == {None, Today - 1}
EndDateArgs == {None, Today - MaxDateOffset}

MsgNoRidership == "No ridership data extracted"
MsgNoWeather == "No weather data extracted"
MsgEmptyMerge == "Transformation resulted in empty dataset"
\* str(e) of an OSError/TypeError raised inside _save_pipeline_metrics
MsgSaveError == "metrics save error"

\* str(e) of an exception raised by the collaborator operation op
ErrOf(op) == op

Max(a, b) == IF a >= b THEN a ELSE b

\* round(n / d) for naturals n, d > 0 (ties away from the lower value)
RoundDiv(n, d) == (2 * n + d) \div (2 * d)

\* dict.update(): the keys of upd replace or extend those of d
DictUpdate(d, upd) == upd @@ d

----------------------------------------------------------------------------
(* ETLPipeline.__init__ *)

InitMetrics ==
    [start_time |-> None,
     end_time |-> None,
     status |-> "NOT_STARTED",
     records_processed |-> 0,
     errors |-> <<>>]

\* the local variables of run(); the three timers are set to 0 on entry
InitLocals(save_to_db) ==
    [save_to_db |-> save_to_db,
     arg_start_date |-> None,
     arg_end_date |-> None,
     start_date |-> None,
     end_date |-> None,
     ridership_range |-> <<None, None>>,
     weather_range |-> <<None, None>>,
     extraction_time |-> 0,
     transformation_time |-> 0,
     loading_time |-> 0,
     extraction_start |-> None,
     transformation_start |-> None,
     loading_start |-> None,
     ridership_len |-> 0,
     weather_len |-> 0,
     merged_len |-> 0,
     null_count |-> 0,
     timestamp |-> None,
     db_called |-> FALSE,
     db_returned |-> FALSE,
     db_success |-> FALSE,
     s3_failed |-> FALSE,
     empty |-> "none",
     e |-> ""]

\* a Transformer on which transform_and_merge has not been called
NoTransform ==
    [ridership |-> << >>, weather |-> << >>, merged |-> << >>,
     report |-> [populated |-> FALSE], called |-> FALSE]

\* the quality report of a newly constructed Transformer
EmptyReport == [populated |-> FALSE]

\* what a load_data() call that has not happened hands back
NoReturn ==
    [kind |-> "none", raised |-> FALSE, cache_found |-> FALSE,
     fetched |-> FALSE, transformed |-> FALSE, read_cache |-> FALSE,
     merged |-> << >>, table |-> << >>, report |-> EmptyReport]

\* the dashboard before its first load: no merged_data.parquet, nothing
\* memoized by st.cache_data
NoApp ==
    [cache |-> [exists |-> FALSE, readable |-> FALSE, table |-> << >>],
     made_by |-> EmptyReport,
     memo |-> [present |-> FALSE, table |-> << >>, report |-> EmptyReport],
     ret |-> NoReturn]

\* the argparse namespace before parse_arguments() has run
NoArgs == [start_date |-> None, end_date |-> None, no_db |-> FALSE]

Init ==
    /\ pipeline_metrics = InitMetrics
    /\ pc = "idle"
    /\ loc = InitLocals(TRUE)
    /\ clock = 0
    /\ files = {}
    /\ writes = << >>
    /\ calls = << >>
    /\ phases_done = {}
    /\ run_no = 0
    /\ instance_no = 1
    /\ result = [status |-> "NONE", error |-> ""]
    /\ outcome = "none"
    /\ prev_errors = << >>
    /\ args = NoArgs
    /\ exit_code = None
    /\ tr = NoTransform
    /\ app = NoApp

----------------------------------------------------------------------------
(* Outcomes of the collaborators' operations *)

\* a fetch returns a table of 0..MaxRows rows, or raises
FetchOutcomes == [raises : {FALSE}, len : 0..MaxRows] \cup {[raises |-> TRUE, len |-> 0]}

\* transform_and_merge returns a table (rows, null cells), or raises; the
\* table has at most one row per ridership date (guard of Transform)
TransformOutcomes ==
    {o \in [raises : {FALSE}, len : 0..MaxRows, nulls : 0..MaxNulls] :
        o.nulls <= o.len * MergedCols} \cup
    {[raises |-> TRUE, len |-> 0, nulls |-> 0]}

\* an operation whose value run() only passes on: it returns or raises
CallOutcomes == {"returns", "raises"}

\* upload_to_s3 returns (having uploaded or not) or raises
UploadOutcomes == {"uploaded", "not_uploaded", "raises"}

\* load_to_postgres returns a boolean or raises
PostgresOutcomes == {"true", "false", "raises"}

\* _save_pipeline_metrics: the file is written; or makedirs/open raises and
\* nothing is written; or json.dump/write raises after open() truncated it
SaveOutcomes == {"written", "raises_before_open", "raises_after_open"}

----------------------------------------------------------------------------
(* Steps of ETLPipeline.run *)

\* an exception with message msg leaves the try block: control is at "except"
Raise(msg) ==
    /\ pc' = "except"
    /\ loc' = [loc EXCEPT !.e = msg]

\* raise ValueError(msg) after the table returned by step was found empty
RaiseEmpty(step, msg) ==
    /\ pc' = "except"
    /\ loc' = [loc EXCEPT !.e = msg, !.empty = step]

Called(op) == calls' = Append(calls, op)

\* the clock advances between any two steps
Tick ==
    /\ clock < MaxClock
    /\ clock' = clock + 1
    /\ UNCHANGED <<tr, app, args, exit_code, pipeline_metrics, pc, loc, files, writes, calls,
                   phases_done, run_no, instance_no, result, outcome, prev_errors>>

\* pipeline = ETLPipeline(), constructed after an earlier run ended
NewInstance ==
    /\ pc = "idle"
    /\ run_no \in 1..(MaxRuns - 1)
    /\ pipeline_metrics # InitMetrics
    /\ pipeline_metrics' = InitMetrics
    /\ instance_no' = instance_no + 1
    /\ loc' = InitLocals(TRUE)
    /\ calls' = << >>
    /\ phases_done' = {}
    /\ outcome' = "none"
    /\ result' = [status |-> "NONE", error |-> ""]
    /\ prev_errors' = << >>
    /\ UNCHANGED <<tr, app, args, exit_code, pc, clock, files, writes, run_no>>

\* if end_date is None: end_date = now; the resolved end date
ResolveEndDate(start_date, end_date) ==
    IF end_date = None THEN DateOf(clock) ELSE end_date

\* if start_date is None: start_date = now - timedelta(days=365)
ResolveStartDate(start_date, end_date) ==
    IF start_date = None THEN DateOf(clock) - DaysBack ELSE start_date

\* entry of run(start_date, end_date, save_to_db): timers, start_time,
\* status RUNNING, date defaults, extraction_start
EnterRun(start_date, end_date, save_to_db) ==
    /\ pc = "idle"
    /\ run_no' = run_no + 1
    /\ pipeline_metrics' = [pipeline_metrics EXCEPT !.start_time = clock,
                                                    !.status = "RUNNING"]
    /\ loc' = [InitLocals(save_to_db) EXCEPT
                  !.arg_start_date = start_date,
                  !.arg_end_date = end_date,
                  !.end_date = ResolveEndDate(start_date, end_date),
                  !.start_date = ResolveStartDate(start_date, end_date),
                  !.extraction_start = clock]
    /\ calls' = << >>
    /\ phases_done' = {}
    /\ outcome' = "none"
    /\ result' = [status |-> "NONE", error |-> ""]
    /\ prev_errors' = pipeline_metrics.errors
    /\ pc' = "fetch_ridership"
    /\ UNCHANGED <<tr, app, clock, files, writes, instance_no>>

\* main(): args = parse_arguments(); pipeline = ETLPipeline();
\* result = pipeline.run(start_date=args.start_date,
\*                       end_date=args.end_date, save_to_db=not args.no_db)
RunStart(start_date, end_date, no_db) ==
    /\ run_no = 0
    /\ args' = [start_date |-> start_date, end_date |-> end_date,
                no_db |-> no_db]
    /\ EnterRun(start_date, end_date, ~ no_db)
    /\ UNCHANGED exit_code

\* a run() call made by a caller other than main(), on whichever instance
\* is current
RunAgain(start_date, end_date, save_to_db) ==
    /\ run_no < MaxRuns
    /\ EnterRun(start_date, end_date, save_to_db)
    /\ UNCHANGED <<args, exit_code>>

\* FetchRidership without "if ridership_df.empty: raise"
FetchRidershipNoEmptyCheck(o) ==
    /\ pc = "fetch_ridership"
    /\ Called("fetch_ridership_data")
    /\ IF o.raises THEN Raise(ErrOf("fetch_ridership_data"))
       ELSE /\ pc' = "fetch_weather"
            /\ loc' = [loc EXCEPT !.ridership_len = o.len,
                                  !.empty = IF o.len = 0 THEN "ridership"
                                            ELSE "none"]
    /\ UNCHANGED <<tr, app, args, exit_code, pipeline_metrics, clock, files, writes, phases_done,
                   run_no, instance_no, result, outcome, prev_errors>>

\* FetchRidership calling the extractor again after it raised
FetchRidershipRetries(o) ==
    /\ pc = "fetch_ridership"
    /\ Called("fetch_ridership_data")
    /\ IF o.raises THEN UNCHANGED <<pc, loc>>
       ELSE IF o.len = 0 THEN RaiseEmpty("ridership", MsgNoRidership)
       ELSE /\ pc' = "fetch_weather"
            /\ loc' = [loc EXCEPT !.ridership_len = o.len,
                                  !.ridership_range = <<loc.start_date, loc.end_date>>]
    /\ UNCHANGED <<tr, app, args, exit_code, pipeline_metrics, clock, files, writes, phases_done,
                   run_no, instance_no, result, outcome, prev_errors>>

\* ridership_df = fetch_ridership_data(...); if ridership_df.empty: raise
FetchRidership(o) ==
    /\ pc = "fetch_ridership"
    /\ Called("fetch_ridership_data")
    /\ IF o.raises THEN Raise(ErrOf("fetch_ridership_data"))
       ELSE IF o.len = 0 THEN RaiseEmpty("ridership", MsgNoRidership)
       ELSE /\ pc' = "fetch_weather"
            /\ loc' = [loc EXCEPT !.ridership_len = o.len,
                                  !.ridership_range = <<loc.start_date, loc.end_date>>]
    /\ UNCHANGED <<tr, app, args, exit_code, pipeline_metrics, clock, files, writes, phases_done,
                   run_no, instance_no, result, outcome, prev_errors>>

\* FetchWeather without "if weather_df.empty: raise"
FetchWeatherNoEmptyCheck(o) ==
    /\ pc = "fetch_weather"
    /\ Called("fetch_weather_data")
    /\ IF o.raises
       THEN Raise(ErrOf("fetch_weather_data")) /\ UNCHANGED phases_done
       ELSE /\ pc' = "transform"
            /\ loc' = [loc EXCEPT !.weather_len = o.len,
                                  !.weather_range = <<loc.start_date, loc.end_date>>,
                                  !.transformation_start = clock]
            /\ phases_done' = phases_done \cup {"extraction"}
    /\ UNCHANGED <<tr, app, args, exit_code, pipeline_metrics, clock, files, writes,
                   run_no, instance_no, result, outcome, prev_errors>>

\* weather_df = fetch_weather_data(...); if weather_df.empty: raise
FetchWeather(o) ==
    /\ pc = "fetch_weather"
    /\ Called("fetch_weather_data")
    /\ IF o.raises
       THEN Raise(ErrOf("fetch_weather_data")) /\ UNCHANGED phases_done
       ELSE IF o.len = 0
       THEN RaiseEmpty("weather", MsgNoWeather) /\ UNCHANGED phases_done
       ELSE /\ pc' = "transform"
            /\ loc' = [loc EXCEPT !.weather_len = o.len,
                                  !.weather_range = <<loc.start_date, loc.end_date>>,
                                  !.transformation_start = clock]
            /\ phases_done' = phases_done \cup {"extraction"}
    /\ UNCHANGED <<tr, app, args, exit_code, pipeline_metrics, clock, files, writes,
                   run_no, instance_no, result, outcome, prev_errors>>

\* merged_df = transform_and_merge(...); if merged_df.empty: raise;
\* pipeline_metrics['transformation'] = {...} (get_quality_report may raise);
\* loading_start, timestamp
Transform(o, q) ==
    /\ pc = "transform"
    /\ o.raises \/ o.len <= loc.ridership_len
    /\ IF o.raises
       THEN /\ Called("transform_and_merge")
            /\ Raise(ErrOf("transform_and_merge"))
            /\ UNCHANGED <<pipeline_metrics, phases_done>>
       ELSE IF o.len = 0
       THEN /\ Called("transform_and_merge")
            /\ RaiseEmpty("merged", MsgEmptyMerge)
            /\ UNCHANGED <<pipeline_metrics, phases_done>>
       ELSE IF q = "raises"
       THEN /\ calls' = calls \o <<"transform_and_merge", "get_quality_report">>
            /\ pc' = "except"
            /\ loc' = [loc EXCEPT !.e = ErrOf("get_quality_report"),
                                  !.merged_len = o.len,
                                  !.null_count = o.nulls,
                                  !.transformation_time = clock - loc.transformation_start]
            /\ UNCHANGED <<pipeline_metrics, phases_done>>
       ELSE /\ calls' = calls \o <<"transform_and_merge", "get_quality_report">>
            /\ pc' = "save_csv"
            /\ loc' = [loc EXCEPT !.merged_len = o.len,
                                  !.null_count = o.nulls,
                                  !.transformation_time = clock - loc.transformation_start,
                                  !.loading_start = clock,
                                  !.timestamp = clock]
            /\ pipeline_metrics' = DictUpdate(pipeline_metrics,
                   [transformation |->
                       [output_records |-> o.len,
                        output_columns |-> MergedCols,
                        duration_seconds |-> clock - loc.transformation_start]])
            /\ phases_done' = phases_done \cup {"transformation"}
    /\ UNCHANGED <<tr, app, args, exit_code, clock, files, writes, run_no, instance_no, result,
                   outcome, prev_errors>>

\* csv_path = save_to_csv(merged_df, ...)
SaveCsv(o) ==
    /\ pc = "save_csv"
    /\ Called("save_to_csv")
    /\ IF o = "raises" THEN Raise(ErrOf("save_to_csv"))
       ELSE pc' = "create_summary_stats" /\ UNCHANGED loc
    /\ UNCHANGED <<tr, app, args, exit_code, pipeline_metrics, clock, files, writes, phases_done,
                   run_no, instance_no, result, outcome, prev_errors>>

\* summary_df = create_summary_stats(merged_df)
CreateSummaryStats(o) ==
    /\ pc = "create_summary_stats"
    /\ Called("create_summary_stats")
    /\ IF o = "raises" THEN Raise(ErrOf("create_summary_stats"))
       ELSE pc' = "save_summary_csv" /\ UNCHANGED loc
    /\ UNCHANGED <<tr, app, args, exit_code, pipeline_metrics, clock, files, writes, phases_done,
                   run_no, instance_no, result, outcome, prev_errors>>

\* summary_path = save_to_csv(summary_df, ...)
SaveSummaryCsv(o) ==
    /\ pc = "save_summary_csv"
    /\ Called("save_to_csv")
    /\ IF o = "raises" THEN Raise(ErrOf("save_to_csv"))
       ELSE pc' = "upload_csv" /\ UNCHANGED loc
    /\ UNCHANGED <<tr, app, args, exit_code, pipeline_metrics, clock, files, writes, phases_done,
                   run_no, instance_no, result, outcome, prev_errors>>

\* AfterUploads calling load_to_postgres whatever save_to_db says
AfterUploadsAlwaysLoads(s3_failed) ==
    /\ pc' = "load_to_postgres"
    /\ loc' = [loc EXCEPT !.s3_failed = s3_failed, !.db_success = FALSE]

\* the statements after the upload block: db_success = False; if save_to_db
\* the load is called next, else loading_time is taken and the 'loading'
\* entry is built next
AfterUploads(s3_failed) ==
    IF loc.save_to_db
    THEN /\ pc' = "load_to_postgres"
         /\ loc' = [loc EXCEPT !.s3_failed = s3_failed, !.db_success = FALSE]
    ELSE /\ pc' = "get_load_metrics"
         /\ loc' = [loc EXCEPT !.s3_failed = s3_failed, !.db_success = FALSE,
                               !.loading_time = clock - loc.loading_start]

\* try: upload_to_s3(csv_path, ...)   [first of the two uploads]
UploadCsv(o) ==
    /\ pc = "upload_csv"
    /\ Called("upload_to_s3")
    /\ IF o = "raises"
       \* except Exception: logger.warning(...); the second upload is skipped
       THEN AfterUploads(TRUE)
       ELSE /\ pc' = "upload_summary"
            /\ loc' = [loc EXCEPT !.s3_failed = (o = "not_uploaded")]
    /\ UNCHANGED <<tr, app, args, exit_code, pipeline_metrics, clock, files, writes, phases_done,
                   run_no, instance_no, result, outcome, prev_errors>>

\* upload_to_s3(summary_path, ...)   [second upload]; except: warning
UploadSummary(o) ==
    /\ pc = "upload_summary"
    /\ Called("upload_to_s3")
    /\ AfterUploads(loc.s3_failed \/ o # "uploaded")
    /\ UNCHANGED <<tr, app, args, exit_code, pipeline_metrics, clock, files, writes, phases_done,
                   run_no, instance_no, result, outcome, prev_errors>>

\* db_success = load_to_postgres(merged_df, ...); loading_time
LoadToPostgres(o) ==
    /\ pc = "load_to_postgres"
    /\ Called("load_to_postgres")
    /\ IF o = "raises"
       THEN /\ pc' = "except"
            /\ loc' = [loc EXCEPT !.e = ErrOf("load_to_postgres"),
                                  !.db_called = TRUE]
       ELSE /\ pc' = "get_load_metrics"
            /\ loc' = [loc EXCEPT !.db_called = TRUE,
                                  !.db_returned = TRUE,
                                  !.db_success = (o = "true"),
                                  !.loading_time = clock - loc.loading_start]
    /\ UNCHANGED <<tr, app, args, exit_code, pipeline_metrics, clock, files, writes, phases_done,
                   run_no, instance_no, result, outcome, prev_errors>>

\* pipeline_metrics['loading'] = {..., 'load_metrics': get_load_metrics()}
GetLoadMetrics(o) ==
    /\ pc = "get_load_metrics"
    /\ Called("get_load_metrics")
    /\ IF o = "raises"
       THEN Raise(ErrOf("get_load_metrics"))
            /\ UNCHANGED <<pipeline_metrics, phases_done>>
       ELSE /\ pc' = "metrics"
            /\ pipeline_metrics' = DictUpdate(pipeline_metrics,
                   [loading |->
                       [csv_path |-> loc.timestamp,
                        summary_path |-> loc.timestamp,
                        database_success |-> loc.db_success,
                        duration_seconds |-> loc.loading_time]])
            /\ phases_done' = phases_done \cup {"loading"}
            /\ UNCHANGED loc
    /\ UNCHANGED <<tr, app, args, exit_code, clock, files, writes, run_no, instance_no, result,
                   outcome, prev_errors>>

\* quality_score in hundredths of a percent
QualityScore(null_count, total_cells) ==
    IF total_cells > 0
    THEN RoundDiv((total_cells - null_count) * 10000, total_cells)
    ELSE 0

\* SuccessRate dividing by the weather count alone
SuccessRateOverWeather(merged_len, ridership_len, weather_len) ==
    RoundDiv(merged_len * 10000, weather_len)

\* success_rate in hundredths of a percent
SuccessRate(merged_len, ridership_len, weather_len) ==
    RoundDiv(merged_len * 10000, Max(ridership_len, weather_len))

\* the dict handed to pipeline_metrics.update() at the end of phase 4
SuccessUpdate ==
    [end_time |-> clock,
     status |-> "SUCCESS",
     records_processed |-> loc.merged_len,
     total_duration_seconds |->
         loc.extraction_time + loc.transformation_time + loc.loading_time,
     quality_score |-> QualityScore(loc.null_count, loc.merged_len * MergedCols),
     success_rate |-> SuccessRate(loc.merged_len, loc.ridership_len, loc.weather_len)]

\* PHASE 4: total_time, quality_score, success_rate, pipeline_metrics.update
Metrics ==
    /\ pc = "metrics"
    /\ pipeline_metrics' = DictUpdate(pipeline_metrics, SuccessUpdate)
    /\ phases_done' = phases_done \cup {"metrics"}
    /\ pc' = "save_metrics"
    /\ UNCHANGED <<tr, app, args, exit_code, loc, clock, files, writes, calls, run_no, instance_no,
                   result, outcome, prev_errors>>

----------------------------------------------------------------------------
(* _save_pipeline_metrics *)

\* filepath = f"data/processed/pipeline_metrics_{timestamp}.json": the path
\* is the clock reading at one-second resolution
MetricsPath(now) == now

\* The file system after _save_pipeline_metrics ended with outcome o:
\* open(filepath, 'w') replaces whatever the path held before.
SavePipelineMetrics(o) ==
    IF o = "raises_before_open"
    THEN UNCHANGED <<files, writes>>
    ELSE LET f == [path |-> MetricsPath(clock),
                   complete |-> (o = "written"),
                   json |-> pipeline_metrics]
         IN /\ files' = {g \in files : g.path # f.path} \cup {f}
            /\ writes' = Append(writes,
                   [path |-> f.path, run |-> run_no, instance |-> instance_no,
                    complete |-> f.complete, status |-> pipeline_metrics.status,
                    errors |-> pipeline_metrics.errors])

\* self._save_pipeline_metrics(); return {'status': 'SUCCESS', ...}
\* (inside the try block: an exception here goes to the except clause)
SaveMetricsOnSuccess(o) ==
    /\ pc = "save_metrics"
    /\ SavePipelineMetrics(o)
    /\ IF o = "written"
       THEN /\ pc' = "idle"
            /\ outcome' = "returned"
            /\ result' = [status |-> "SUCCESS", error |-> ""]
            /\ UNCHANGED loc
       ELSE Raise(MsgSaveError) /\ UNCHANGED <<outcome, result>>
    /\ UNCHANGED <<tr, app, args, exit_code, pipeline_metrics, clock, calls, phases_done, run_no,
                   instance_no, prev_errors>>

\* FailedUpdate without the 'status' key
FailedUpdateNoStatus ==
    [end_time |-> clock,
     errors |-> <<[error |-> loc.e, timestamp |-> clock]>>]

\* the dict handed to pipeline_metrics.update() in the except clause
FailedUpdate ==
    [end_time |-> clock,
     status |-> "FAILED",
     errors |-> <<[error |-> loc.e, timestamp |-> clock]>>]

\* except Exception as e: pipeline_metrics.update({... 'status': 'FAILED' ...})
Except ==
    /\ pc = "except"
    /\ pipeline_metrics' = DictUpdate(pipeline_metrics, FailedUpdate)
    /\ pc' = "save_metrics_failed"
    /\ UNCHANGED <<tr, app, args, exit_code, loc, clock, files, writes, calls, phases_done, run_no,
                   instance_no, result, outcome, prev_errors>>

\* self._save_pipeline_metrics(); return {'status': 'FAILED', 'error': str(e)}
\* (inside the except clause: an exception here leaves run())
SaveMetricsOnFailure(o) ==
    /\ pc = "save_metrics_failed"
    /\ SavePipelineMetrics(o)
    /\ pc' = "idle"
    /\ IF o = "written"
       THEN /\ outcome' = "returned"
            /\ result' = [status |-> "FAILED", error |-> loc.e]
       ELSE /\ outcome' = "raised"
            /\ UNCHANGED result
    /\ UNCHANGED <<tr, app, args, exit_code, pipeline_metrics, loc, clock, calls, phases_done, run_no,
                   instance_no, prev_errors>>

----------------------------------------------------------------------------
(* main(), after run() *)

\* MainExit taking any returned result for a success
MainExitAlwaysZero ==
    /\ pc = "idle"
    /\ outcome # "none"
    /\ pc' = "exited"
    /\ exit_code' = IF outcome = "returned" THEN 0 ELSE 1
    /\ UNCHANGED <<tr, app, pipeline_metrics, loc, clock, files, writes, calls,
                   phases_done, run_no, instance_no, result, outcome,
                   prev_errors, args>>

\* if result['status'] == 'SUCCESS': ... sys.exit(0) else: ... sys.exit(1);
\* an exception that left run() is not caught in main(): the interpreter
\* prints the traceback and the process ends with exit status 1
MainExit ==
    /\ pc = "idle"
    /\ outcome # "none"
    /\ pc' = "exited"
    /\ exit_code' = IF outcome = "returned" /\ result.status = "SUCCESS"
                    THEN 0 ELSE 1
    /\ UNCHANGED <<tr, app, pipeline_metrics, loc, clock, files, writes, calls,
                   phases_done, run_no, instance_no, result, outcome,
                   prev_errors, args>>

----------------------------------------------------------------------------
RunStep ==
    \/ Tick
    \/ \E o \in FetchOutcomes : FetchRidership(o)
    \/ \E o \in FetchOutcomes : FetchWeather(o)
    \/ \E o \in TransformOutcomes, q \in CallOutcomes : Transform(o, q)
    \/ \E o \in CallOutcomes : SaveCsv(o)
    \/ \E o \in CallOutcomes : CreateSummaryStats(o)
    \/ \E o \in CallOutcomes : SaveSummaryCsv(o)
    \/ \E o \in UploadOutcomes : UploadCsv(o)
    \/ \E o \in UploadOutcomes : UploadSummary(o)
    \/ \E o \in PostgresOutcomes : LoadToPostgres(o)
    \/ \E o \in CallOutcomes : GetLoadMetrics(o)
    \/ Metrics
    \/ \E o \in SaveOutcomes : SaveMetricsOnSuccess(o)
    \/ Except
    \/ \E o \in SaveOutcomes : SaveMetricsOnFailure(o)

\* the command-line program: one instance, one run
Next ==
    \/ \E start_date \in StartDateArgs, end_date \in EndDateArgs,
          no_db \in BOOLEAN : RunStart(start_date, end_date, no_db)
    \/ RunStep
    \/ MainExit

Spec == Init /\ [][Next]_vars

\* ETLPipeline used as a library: runs follow one another, on the same
\* instance or on a newly constructed one
NextRuns ==
    \/ \E start_date \in StartDateArgs, end_date \in EndDateArgs,
          save_to_db \in BOOLEAN : RunAgain(start_date, end_date, save_to_db)
    \/ NewInstance
    \/ RunStep

SpecRuns == Init /\ [][NextRuns]_vars

----------------------------------------------------------------------------
(* The Transformer: transform_and_merge *)

\* a raw value that is not a number
NonNumeric == -2

\* a raw date is a calendar date or does not parse (None)
RawDates == {None} \cup (1..MaxDate)

RawRidershipRows == [date : RawDates, ridership : {100, NonNumeric}]

RawWeatherRows ==
    [date : RawDates, temperature_mean : {5, None}, precipitation : {0}]

SeqsUpTo(S, n) == UNION {[1..k -> S] : k \in 0..n}

\* rows whose date does not parse are dropped
DropInvalidDates(rows) == SelectSeq(rows, LAMBDA r : r.date # None)

\* a non-numeric value becomes missing; the row is kept
CoerceNumeric(v) == IF v = NonNumeric THEN None ELSE v

\* of the rows with the same date the first one is kept
RECURSIVE DropDuplicateDates(_)
DropDuplicateDates(rows) ==
    IF rows = << >> THEN << >>
    ELSE LET n == Len(rows)
             front == DropDuplicateDates(SubSeq(rows, 1, n - 1))
         IN IF \E k \in 1..Len(front) : front[k].date = rows[n].date
            THEN front
            ELSE Append(front, rows[n])

CleanRidership(rows) ==
    LET kept == DropDuplicateDates(DropInvalidDates(rows))
    IN [i \in 1..Len(kept) |->
           [date |-> kept[i].date,
            ridership |-> CoerceNumeric(kept[i].ridership)]]

CleanWeather(rows) ==
    LET kept == DropDuplicateDates(DropInvalidDates(rows))
    IN [i \in 1..Len(kept) |->
           [date |-> kept[i].date,
            temperature_mean |-> CoerceNumeric(kept[i].temperature_mean),
            precipitation |-> CoerceNumeric(kept[i].precipitation)]]

\* MergeRows keeping only the dates both tables have
MergeRowsBothSides(r, w) ==
    LET both == SelectSeq(r, LAMBDA x : \E j \in 1..Len(w) : w[j].date = x.date)
    IN [i \in 1..Len(both) |->
           LET j == CHOOSE j \in 1..Len(w) : w[j].date = both[i].date
           IN [date |-> both[i].date,
               ridership |-> both[i].ridership,
               temperature_mean |-> w[j].temperature_mean,
               precipitation |-> w[j].precipitation]]

\* the cleaned weather rows joined onto the cleaned ridership rows by date:
\* one merged row per ridership date, null weather fields where the
\* weather table has no row for the date
MergeRows(r, w) ==
    [i \in 1..Len(r) |->
        LET m == {j \in 1..Len(w) : w[j].date = r[i].date}
        IN IF m = {}
           THEN [date |-> r[i].date,
                 ridership |-> r[i].ridership,
                 temperature_mean |-> None,
                 precipitation |-> None]
           ELSE LET j == CHOOSE j \in m : TRUE
                IN [date |-> r[i].date,
                    ridership |-> r[i].ridership,
                    temperature_mean |-> w[j].temperature_mean,
                    precipitation |-> w[j].precipitation]]

\* how many rows of the table have a missing value in the column
NullCount(rows, column) ==
    Cardinality({i \in 1..Len(rows) : rows[i][column] = None})

\* the counts the transform leaves in the quality report of one source
SourceQuality(raw, cleaned) ==
    [rows_in |-> Len(raw),
     invalid_dates |-> Len(raw) - Len(DropInvalidDates(raw)),
     duplicates |-> Len(DropInvalidDates(raw)) - Len(cleaned),
     rows_out |-> Len(cleaned)]

\* the quality report after transform_and_merge(ridership, weather)
QualityReportOf(ridership, weather) ==
    LET r == CleanRidership(ridership)
        w == CleanWeather(weather)
        merged == MergeRows(r, w)
    IN [populated |-> TRUE,
        ridership |-> SourceQuality(ridership, r),
        weather |-> SourceQuality(weather, w),
        merged |-> [rows |-> Len(merged),
                     null_ridership |-> NullCount(merged, "ridership"),
                     null_temperature_mean |-> NullCount(merged, "temperature_mean"),
                     null_precipitation |-> NullCount(merged, "precipitation")]]

\* merged = transform_and_merge(ridership_rows, weather_rows)
TransformAndMergeResult(ridership, weather) ==
    MergeRows(CleanRidership(ridership), CleanWeather(weather))

\* a Transformer is constructed and handed two raw tables
InitTransform ==
    /\ pipeline_metrics = InitMetrics
    /\ pc = "idle"
    /\ loc = InitLocals(TRUE)
    /\ clock = 0
    /\ files = {}
    /\ writes = << >>
    /\ calls = << >>
    /\ phases_done = {}
    /\ run_no = 0
    /\ instance_no = 1
    /\ result = [status |-> "NONE", error |-> ""]
    /\ outcome = "none"
    /\ prev_errors = << >>
    /\ args = NoArgs
    /\ exit_code = None
    /\ \E r \in SeqsUpTo(RawRidershipRows, MaxInputRows),
          w \in SeqsUpTo(RawWeatherRows, MaxInputRows) :
          tr = [NoTransform EXCEPT !.ridership = r, !.weather = w]
    /\ app = NoApp

\* the call transformer.transform_and_merge(ridership_df, weather_df)
TransformAndMerge ==
    /\ ~ tr.called
    /\ tr' = [tr EXCEPT
                 !.merged = TransformAndMergeResult(tr.ridership, tr.weather),
                 !.report = QualityReportOf(tr.ridership, tr.weather),
                 !.called = TRUE]
    /\ UNCHANGED <<pipelineVars, app>>

NextTransform == TransformAndMerge

SpecTransform == InitTransform /\ [][NextTransform]_vars

----------------------------------------------------------------------------
(* The dashboard's load_data() *)

\* what the extractor hands load_data: a raw table, or an exception
AppRidershipOutcomes ==
    {[raises |-> TRUE, rows |-> << >>]} \cup
    [raises : {FALSE}, rows : SeqsUpTo(RawRidershipRows, MaxFetchedRows)]

AppWeatherOutcomes ==
    {[raises |-> TRUE, rows |-> << >>]} \cup
    [raises : {FALSE}, rows : SeqsUpTo(RawWeatherRows, MaxFetchedRows)]

\* to_parquet writes the file, or raises having created nothing, or raises
\* leaving a file that cannot be read back
ParquetOutcomes == {"written", "raises_no_file", "raises_partial_file"}

\* read_parquet and the .dt accessors may raise
StepOutcomes == {"returns", "raises"}

\* the calendar columns (year, month, month_name, day_name, year_month) are
\* functions of the date: the model keeps the date they are computed from
WithCalendarColumns(rows) ==
    [i \in 1..Len(rows) |->
        [date |-> rows[i].date,
         ridership |-> rows[i].ridership,
         temperature_mean |-> rows[i].temperature_mean,
         precipitation |-> rows[i].precipitation,
         calendar_of |-> rows[i].date]]

\* CacheExists of a load_data that never looks for the file
CacheNeverFound == FALSE

\* os.path.exists(CACHE_FILE)
CacheExists == app.cache.exists

\* load_data raised: it hands back no table, st.cache_data memoizes nothing
Raised(r) == [r EXCEPT !.raised = TRUE, !.merged = << >>]

LoadRaised(r) ==
    app' = [app EXCEPT !.ret = Raised(r)]

\* load_data returned (merged_df, quality_report): st.cache_data memoizes it
LoadReturned(r, merged, report) ==
    LET table == WithCalendarColumns(merged)
    IN app' = [app EXCEPT
                  !.ret = [r EXCEPT !.table = table, !.report = report],
                  !.memo = [present |-> TRUE, table |-> table,
                            report |-> report]]

\* the if-branch: the table is read from merged_data.parquet and the report
\* is the one of the Transformer constructed two lines earlier
LoadFromCache(rd, dv) ==
    LET r == [NoReturn EXCEPT !.kind = "body", !.cache_found = TRUE,
                              !.read_cache = TRUE]
    IN IF ~ app.cache.readable \/ rd = "raises" THEN LoadRaised(r)
       ELSE IF dv = "raises" THEN LoadRaised(r)
       ELSE LoadReturned(r, app.cache.table, EmptyReport)

\* the else-branch: both fetches, transform_and_merge, to_parquet, and the
\* report of the Transformer that did the merge
LoadFromSources(ro, wo, pq, dv) ==
    LET r0 == [NoReturn EXCEPT !.kind = "body", !.fetched = TRUE]
    IN IF ro.raises \/ wo.raises THEN LoadRaised(r0)
       ELSE
         LET merged == TransformAndMergeResult(ro.rows, wo.rows)
             report == QualityReportOf(ro.rows, wo.rows)
             r == [r0 EXCEPT !.transformed = TRUE, !.merged = merged]
             written == [exists |-> TRUE, readable |-> TRUE, table |-> merged]
         IN IF pq = "raises_no_file" THEN LoadRaised(r)
            ELSE IF pq = "raises_partial_file"
            THEN app' = [app EXCEPT
                            !.ret = Raised(r),
                            !.cache = [exists |-> TRUE, readable |-> FALSE,
                                       table |-> << >>]]
            ELSE IF dv = "raises"
            THEN app' = [app EXCEPT
                            !.ret = Raised(r),
                            !.cache = written, !.made_by = report]
            ELSE app' = [app EXCEPT
                            !.ret = [r EXCEPT
                                        !.table = WithCalendarColumns(merged),
                                        !.report = report],
                            !.memo = [present |-> TRUE,
                                      table |-> WithCalendarColumns(merged),
                                      report |-> report],
                            !.cache = written, !.made_by = report]

\* the body of load_data runs: st.cache_data holds no value for it
LoadData(ro, wo, pq, rd, dv) ==
    /\ ~ app.memo.present
    /\ IF CacheExists
       THEN LoadFromCache(rd, dv)
       ELSE LoadFromSources(ro, wo, pq, dv)
    /\ UNCHANGED <<pipelineVars, tr>>

\* load_data() is called again in the same server process: st.cache_data
\* hands back the memoized value and the body does not run
LoadDataMemoized ==
    /\ app.memo.present
    /\ app' = [app EXCEPT
                  !.ret = [NoReturn EXCEPT !.kind = "memo",
                                           !.cache_found = app.cache.exists,
                                           !.table = app.memo.table,
                                           !.report = app.memo.report]]
    /\ UNCHANGED <<pipelineVars, tr>>

\* the Streamlit server is started again: nothing is memoized any more
ServerRestart ==
    /\ app.memo.present
    /\ app' = [app EXCEPT !.memo = NoApp.memo, !.ret = NoReturn]
    /\ UNCHANGED <<pipelineVars, tr>>

InitApp ==
    /\ pipeline_metrics = InitMetrics
    /\ pc = "idle"
    /\ loc = InitLocals(TRUE)
    /\ clock = 0
    /\ files = {}
    /\ writes = << >>
    /\ calls = << >>
    /\ phases_done = {}
    /\ run_no = 0
    /\ instance_no = 1
    /\ result = [status |-> "NONE", error |-> ""]
    /\ outcome = "none"
    /\ prev_errors = << >>
    /\ args = NoArgs
    /\ exit_code = None
    /\ tr = NoTransform
    /\ app = NoApp

\* an outcome of a call that the branch taken does not make
NotCalled == [raises |-> FALSE, rows |-> << >>]

NextApp ==
    \/ \E rd \in StepOutcomes, dv \in StepOutcomes :
          CacheExists /\ LoadData(NotCalled, NotCalled, "written", rd, dv)
    \/ \E ro \in AppRidershipOutcomes, wo \in AppWeatherOutcomes,
          pq \in ParquetOutcomes, dv \in StepOutcomes :
          ~ CacheExists /\ LoadData(ro, wo, pq, "returns", dv)
    \/ LoadDataMemoized
    \/ ServerRestart

SpecApp == InitApp /\ [][NextApp]_vars

----------------------------------------------------------------------------
(* Vocabulary of the properties *)

\* run() has ended: it returned a result or an exception left it
Ended == pc = "idle" /\ outcome # "none"

\* how often the current run has invoked the collaborator operation op
CallCount(op) == Cardinality({i \in DOMAIN calls : calls[i] = op})

Invoked(op) == CallCount(op) > 0

\* messages of the exceptions raised by Extractor, Transformer, Loader calls
CollaboratorErrors ==
    {ErrOf(op) : op \in {"fetch_ridership_data", "fetch_weather_data",
                         "transform_and_merge", "get_quality_report",
                         "save_to_csv", "create_summary_stats",
                         "load_to_postgres", "get_load_metrics"}}

Status == pipeline_metrics.status

----------------------------------------------------------------------------
(* C1 *)

StatusMoves ==
    {<<"NOT_STARTED", "RUNNING">>, <<"RUNNING", "SUCCESS">>,
     <<"RUNNING", "FAILED">>}

\* C1: during one run on a fresh instance the status moves only along
\* NOT_STARTED -> RUNNING -> SUCCESS or NOT_STARTED -> RUNNING -> FAILED, it
\* is RUNNING before any extractor call, and SUCCESS and FAILED are final.
C1_StatusMachine ==
    [][/\ \/ pipeline_metrics'.status = pipeline_metrics.status
          \/ <<pipeline_metrics.status, pipeline_metrics'.status>> \in StatusMoves
       /\ (calls' # << >> /\ calls = << >>) => pipeline_metrics.status = "RUNNING"
      ]_vars

----------------------------------------------------------------------------
(* C2 *)

\* C2: status = SUCCESS implies that in the current run both fetches
\* returned non-empty tables, transform_and_merge returned a non-empty
\* table, both save_to_csv calls returned, and the metrics phase computed
\* quality_score and success_rate.
C2_SuccessMeansAllPhases ==
    Status = "SUCCESS" =>
        /\ phases_done = {"extraction", "transformation", "loading", "metrics"}
        /\ loc.ridership_len > 0
        /\ loc.weather_len > 0
        /\ loc.merged_len > 0
        /\ loc.empty = "none"
        /\ CallCount("save_to_csv") = 2
        /\ Invoked("get_load_metrics")
        /\ {"quality_score", "success_rate"} \subseteq DOMAIN pipeline_metrics
        /\ pipeline_metrics.quality_score =
               QualityScore(loc.null_count, loc.merged_len * MergedCols)
        /\ pipeline_metrics.success_rate =
               SuccessRate(loc.merged_len, loc.ridership_len, loc.weather_len)

C2_Witness ==
    /\ Ended
    /\ Status = "SUCCESS"
    /\ result.status = "SUCCESS"
    /\ loc.s3_failed

----------------------------------------------------------------------------
(* C3 *)

\* C3: an empty ridership table, an empty weather table or an empty merged
\* table makes the run end FAILED, and no operation of a later step is
\* invoked after the empty table came back.
C3_FatalEmpty ==
    /\ loc.empty = "ridership" =>
           calls = <<"fetch_ridership_data">>
    /\ loc.empty = "weather" =>
           calls = <<"fetch_ridership_data", "fetch_weather_data">>
    /\ loc.empty = "merged" =>
           calls = <<"fetch_ridership_data", "fetch_weather_data",
                     "transform_and_merge">>
    /\ loc.empty # "none" =>
           /\ pc \in {"except", "save_metrics_failed", "idle", "exited"}
           /\ Status \in {"RUNNING", "FAILED"}
           /\ pc # "except" => Status = "FAILED"
           /\ outcome = "returned" => result.status = "FAILED"

C3_Witness ==
    /\ Ended
    /\ loc.empty = "merged"
    /\ Status = "FAILED"
    /\ ~ Invoked("save_to_csv")

----------------------------------------------------------------------------
(* C4 *)

\* C4: every run() that returns has, before returning, written a metrics
\* file whose status field equals the status of the returned result.
C4_SnapshotPersisted ==
    outcome = "returned" =>
        /\ writes # << >>
        /\ LET w == writes[Len(writes)]
           IN /\ w.run = run_no
              /\ w.complete
              /\ w.status = result.status
              /\ \E f \in files :
                    /\ f.path = w.path
                    /\ f.complete
                    /\ f.json.status = result.status

C4_Witness ==
    /\ outcome = "returned"
    /\ result.status = "FAILED"
    /\ Len(writes) = 2
    /\ ~ writes[1].complete
    /\ writes[1].status = "SUCCESS"

----------------------------------------------------------------------------
(* C5 *)

\* a secondary sink failed: an upload raised or did not upload, or the
\* relational-store load returned false or raised
SinkFailed ==
    \/ loc.s3_failed
    \/ loc.db_called /\ ~ loc.db_success

\* nothing but a secondary sink failed in the run
OnlySinksFailed == loc.e \in {"", ErrOf("load_to_postgres")}

\* C5: when transformation and both save_to_csv calls succeeded, a failure
\* of upload_to_s3 or of load_to_postgres, however it is signalled, does not
\* fail the run: the run ends with status SUCCESS.
C5_SinkFailureNeverFails ==
    (Ended /\ Invoked("upload_to_s3") /\ SinkFailed /\ OnlySinksFailed) =>
        /\ Status = "SUCCESS"
        /\ outcome = "returned"
        /\ result.status = "SUCCESS"

----------------------------------------------------------------------------
(* C6 *)

\* C6: an error raised inside an Extractor, Transformer or Loader call never
\* escapes run(): run() returns a result whose status is FAILED.
C6_ErrorsNeverEscape ==
    (Ended /\ loc.e \in CollaboratorErrors) =>
        /\ outcome = "returned"
        /\ result.status = "FAILED"

----------------------------------------------------------------------------
(* C7 *)

\* the except clause of the current run has updated the metrics
FailureRecorded ==
    \/ pc = "save_metrics_failed"
    \/ Ended /\ loc.e # ""

\* C7: when a run fails, the error message with a timestamp is appended to
\* the errors sequence (the entries already there are kept, the new entry
\* is last), the returned 'error' is that message, and an empty ridership
\* fetch gives "No ridership data extracted" with a FAILED metrics file.
C7_ErrorAppended ==
    FailureRecorded =>
        /\ Len(pipeline_metrics.errors) = Len(prev_errors) + 1
        /\ SubSeq(pipeline_metrics.errors, 1, Len(prev_errors)) = prev_errors
        /\ pipeline_metrics.errors[Len(pipeline_metrics.errors)].error = loc.e
        /\ outcome = "returned" =>
              /\ result.error = loc.e
              /\ loc.empty = "ridership" =>
                    /\ result.error = MsgNoRidership
                    /\ writes[Len(writes)].status = "FAILED"

----------------------------------------------------------------------------
(* C8 *)

\* C8: for any sequence of run() calls on an instance, a run that ends with
\* status SUCCESS has an empty errors list in the metrics it returns and in
\* the metrics it persisted.
C8_SuccessHasNoErrors ==
    (outcome = "returned" /\ result.status = "SUCCESS") =>
        /\ pipeline_metrics.errors = << >>
        /\ writes[Len(writes)].errors = << >>

----------------------------------------------------------------------------
(* C9 *)

\* both save_to_csv calls of the current run returned
LocalPersistenceDone == Invoked("upload_to_s3")

\* C9: load_to_postgres is invoked (once) iff save_to_db is true and the run
\* reached loading with local persistence done; the 'loading' entry the run
\* writes has database_success equal to the boolean returned (false when
\* the load was not invoked); a false return does not abort the run: no
\* exception follows from it, and the run in which nothing else raises ends
\* SUCCESS with database_success = false.
C9_LoadOnlyIfRequested ==
    /\ Ended =>
          (Invoked("load_to_postgres") <=> (loc.save_to_db /\ LocalPersistenceDone))
    /\ CallCount("load_to_postgres") <= 1
    /\ loc.db_called <=> Invoked("load_to_postgres")
    /\ "loading" \in phases_done =>
          /\ "loading" \in DOMAIN pipeline_metrics
          /\ pipeline_metrics.loading.database_success =
                (loc.db_called /\ loc.db_returned /\ loc.db_success)
    /\ loc.db_returned =>
          /\ loc.e \in {"", ErrOf("get_load_metrics"), MsgSaveError}
          /\ pc # "load_to_postgres"
    /\ (Ended /\ loc.db_returned /\ ~ loc.db_success) =>
          IF loc.e = ""
          THEN /\ Status = "SUCCESS"
               /\ outcome = "returned"
               /\ result.status = "SUCCESS"
               /\ pipeline_metrics.loading.database_success = FALSE
          ELSE Status = "FAILED"

C9_Witness ==
    /\ Ended
    /\ loc.save_to_db
    /\ loc.db_returned
    /\ ~ loc.db_success
    /\ result.status = "SUCCESS"
    /\ pipeline_metrics.loading.database_success = FALSE

----------------------------------------------------------------------------
(* C10 *)

\* C10: any two distinct runs, of the same or of different instances,
\* write their metrics to different paths, so that no run overwrites the
\* metrics file of a prior run.
C10_FreshMetricsPath ==
    \A i, j \in DOMAIN writes :
        writes[i].run # writes[j].run => writes[i].path # writes[j].path

----------------------------------------------------------------------------
(* C11 *)

\* C11: an unspecified end_date resolves to the current date; an
\* unspecified start_date resolves to the resolved end minus 365 days, also
\* when the caller gave an end_date other than today, so that start <= end
\* with the default start; both fetches receive the same resolved pair.
C11_DateDefaults ==
    run_no > 0 =>
        /\ loc.arg_end_date = None => loc.end_date = DateOf(clock)
        /\ loc.arg_end_date # None => loc.end_date = loc.arg_end_date
        /\ loc.arg_start_date # None => loc.start_date = loc.arg_start_date
        /\ loc.arg_start_date = None =>
              /\ loc.start_date = loc.end_date - DaysBack
              /\ loc.start_date <= loc.end_date
        /\ Invoked("fetch_weather_data") /\ loc.weather_range # <<None, None>> =>
              /\ loc.weather_range = loc.ridership_range
              /\ loc.weather_range = <<loc.start_date, loc.end_date>>

----------------------------------------------------------------------------
(* C12 *)

\* the time the extraction phase of the current run took: from
\* extraction_start to the return of the second fetch
ExtractionElapsed == loc.transformation_start - loc.extraction_start

\* C12: the metrics of a SUCCESS run record a measured duration and output
\* counts for extraction, transformation and loading, and
\* total_duration_seconds is the sum of the three measured phase durations,
\* so that the time spent in the two fetches is part of the total.
C12_PhaseDurations ==
    Status = "SUCCESS" =>
        /\ {"extraction", "transformation", "loading"} \subseteq DOMAIN pipeline_metrics
        /\ pipeline_metrics.total_duration_seconds =
               ExtractionElapsed
               + pipeline_metrics.transformation.duration_seconds
               + pipeline_metrics.loading.duration_seconds

----------------------------------------------------------------------------
(* C13 *)

----------------------------------------------------------------------------
(* C14 *)

\* the dates of the table's rows (an unparsable date is no date)
DatesOf(rows) == {rows[i].date : i \in 1..Len(rows)} \ {None}

\* C14: every date of the merged table is a date of the ridership input,
\* with exactly one merged row per such date; a date that only the weather
\* input has never appears; a ridership date the weather input lacks
\* appears with null weather fields.
C14_InnerJoinAsymmetry ==
    tr.called =>
        /\ \A i \in 1..Len(tr.merged) : tr.merged[i].date \in DatesOf(tr.ridership)
        /\ \A d \in DatesOf(tr.ridership) :
              Cardinality({i \in 1..Len(tr.merged) : tr.merged[i].date = d}) = 1
        /\ \A d \in DatesOf(tr.weather) \ DatesOf(tr.ridership) :
              \A i \in 1..Len(tr.merged) : tr.merged[i].date # d
        /\ \A i \in 1..Len(tr.merged) :
              tr.merged[i].date \notin DatesOf(tr.weather) =>
                  /\ tr.merged[i].temperature_mean = None
                  /\ tr.merged[i].precipitation = None

C14_Witness ==
    /\ tr.called
    /\ DatesOf(tr.ridership) = {1, 2}
    /\ DatesOf(tr.weather) = {1}
    /\ Len(tr.merged) = 2
    /\ \E i \in 1..2 : tr.merged[i].date = 2 /\ tr.merged[i].temperature_mean = None
    /\ \E i \in 1..2 : tr.merged[i].date = 1 /\ tr.merged[i].temperature_mean = 5

----------------------------------------------------------------------------
(* C15 *)

ExtractorOps == {"fetch_ridership_data", "fetch_weather_data"}

TransformerOps == {"transform_and_merge", "get_quality_report"}

LoaderOps == {"save_to_csv", "create_summary_stats", "upload_to_s3",
              "load_to_postgres", "get_load_metrics"}

\* the positions in the call log of the current run at which op was invoked
Positions(ops) == {i \in DOMAIN calls : calls[i] \in ops}

\* every call of an operation of first was made before every call of an
\* operation of second
AllBefore(first, second) ==
    \A i \in Positions(first), j \in Positions(second) : i < j

\* C15: within a run fetch_ridership_data returns before fetch_weather_data
\* is called, both return before transform_and_merge is called, which is
\* invoked at most once and returns before any loader operation is called;
\* the metrics phase starts only after the last loader operation returned;
\* no extractor call is made again after a failure.
C15_SequentialPhases ==
    /\ AllBefore({"fetch_ridership_data"}, {"fetch_weather_data"})
    /\ AllBefore(ExtractorOps, TransformerOps)
    /\ AllBefore(ExtractorOps \cup TransformerOps, LoaderOps)
    /\ CallCount("fetch_ridership_data") <= 1
    /\ CallCount("fetch_weather_data") <= 1
    /\ CallCount("transform_and_merge") <= 1
    /\ Invoked("fetch_weather_data") => loc.ridership_len > 0
    /\ Invoked("transform_and_merge") =>
          /\ loc.weather_len > 0
          /\ "extraction" \in phases_done
    /\ Positions(LoaderOps) # {} =>
          /\ loc.merged_len > 0
          /\ "transformation" \in phases_done
    /\ (pc = "metrics" \/ "metrics" \in phases_done) =>
          /\ "loading" \in phases_done
          /\ calls[Len(calls)] = "get_load_metrics"
    /\ loc.e \in {ErrOf(op) : op \in ExtractorOps} \cup {MsgNoRidership, MsgNoWeather} =>
          /\ calls[Len(calls)] \in ExtractorOps
          /\ pc \in {"except", "save_metrics_failed", "idle", "exited"}

C15_Witness ==
    /\ Ended
    /\ Status = "SUCCESS"
    /\ calls = <<"fetch_ridership_data", "fetch_weather_data",
                 "transform_and_merge", "get_quality_report", "save_to_csv",
                 "create_summary_stats", "save_to_csv", "upload_to_s3",
                 "upload_to_s3", "load_to_postgres", "get_load_metrics">>

----------------------------------------------------------------------------
(* C16 *)

\* the run has left the block of the two uploads
UploadsOver == Invoked("upload_to_s3") /\ pc # "upload_summary"

\* C16: in the loading phase both save_to_csv calls precede every
\* upload_to_s3 call, which precede load_to_postgres, and an upload_to_s3
\* call that raises prevents no other sub-operation from being attempted:
\* the remaining upload is made, and the relational-store load is made when
\* requested.
C16_IndependentLoading ==
    /\ AllBefore({"save_to_csv"}, {"upload_to_s3"})
    /\ Invoked("upload_to_s3") => CallCount("save_to_csv") = 2
    /\ AllBefore({"upload_to_s3"}, {"load_to_postgres"})
    /\ UploadsOver => CallCount("upload_to_s3") = 2
    /\ (UploadsOver /\ loc.save_to_db /\ pc # "load_to_postgres") =>
          Invoked("load_to_postgres")

----------------------------------------------------------------------------
(* C17 *)

\* the body of load_data has just run
BodyRan == app.ret.kind = "body"

\* C17: whenever the body of load_data runs it calls the extractor exactly
\* when merged_data.parquet is absent and the transformer only then; a body
\* that found no file and returned leaves the file holding the merged table;
\* the file, once written, stays as it is, and from then on no body fetches
\* or transforms; a body that found the file and returned hands back the
\* empty report of a new Transformer, not the report of the transform that
\* made the file
C17_CacheInv ==
    /\ BodyRan => (app.ret.fetched <=> ~ app.ret.cache_found)
    /\ BodyRan /\ app.ret.transformed => ~ app.ret.cache_found
    /\ BodyRan /\ app.ret.cache_found =>
          app.ret.read_cache /\ ~ app.ret.fetched /\ ~ app.ret.transformed
    /\ BodyRan /\ ~ app.ret.cache_found /\ ~ app.ret.raised =>
          /\ app.ret.transformed
          /\ app.cache.exists /\ app.cache.readable
          /\ app.cache.table = app.ret.merged
    /\ BodyRan /\ app.ret.cache_found /\ ~ app.ret.raised =>
          /\ app.ret.report = EmptyReport
          /\ app.ret.report # app.made_by
          /\ app.ret.table = WithCalendarColumns(app.cache.table)

C17_CacheStep ==
    app.cache.exists =>
        /\ app'.cache = app.cache
        /\ ~ app'.ret.fetched /\ ~ app'.ret.transformed

C17_PresentationCache == [] C17_CacheInv /\ [][C17_CacheStep]_vars

\* a restarted server read a cached table of at least one row and handed it
\* back with the empty report
C17_Witness ==
    /\ BodyRan /\ app.ret.cache_found /\ ~ app.ret.raised
    /\ Len(app.ret.table) > 0
    /\ app.made_by.populated

----------------------------------------------------------------------------
(* C18 *)

\* a value in hundredths of a percent between 0% and 100%
Percentage == 0..10000

\* C18: phase 4 never divides by zero: when it is reached both input tables
\* and the merged table have rows, so max(len(ridership), len(weather)) >= 1
\* and total_cells > 0, and the quality score of a table without cells is
\* defined as 0; the merged table having at most one row per ridership
\* date, the success rate len(merged) / max(...) is above 0 and at most
\* 100%, the quality score lies between 0% and 100%, and the values stored
\* after rounding to two decimals lie between 0% and 100% (the stored
\* success rate is above 0 unless max(...) exceeds 20000 merged rows' worth)
C18_MetricsNumerics ==
    /\ pc = "metrics" =>
          /\ loc.ridership_len >= 1 /\ loc.weather_len >= 1
          /\ Max(loc.ridership_len, loc.weather_len) >= 1
          /\ loc.merged_len * MergedCols > 0
          /\ 0 < loc.merged_len
          /\ loc.merged_len <= Max(loc.ridership_len, loc.weather_len)
          /\ loc.null_count \in 0..(loc.merged_len * MergedCols)
    /\ "success_rate" \in DOMAIN pipeline_metrics =>
          /\ pipeline_metrics.success_rate \in Percentage
          /\ pipeline_metrics.success_rate =
                RoundDiv(loc.merged_len * 10000,
                         Max(loc.ridership_len, loc.weather_len))
    /\ "quality_score" \in DOMAIN pipeline_metrics =>
          pipeline_metrics.quality_score \in Percentage
    /\ \A m \in 1..MetricRows, r \in 1..MetricRows, w \in 1..MetricRows :
          m <= r =>
             /\ 0 < m * 100 /\ m * 100 <= 100 * Max(r, w)
             /\ SuccessRate(m, r, w) \in Percentage
             /\ 20000 * m >= Max(r, w) => SuccessRate(m, r, w) > 0
    /\ \A n \in 0..(MetricRows * MergedCols) : QualityScore(n, 0) = 0
    /\ \A c \in 1..(MetricRows * MergedCols) : \A n \in 0..c :
          QualityScore(n, c) \in Percentage

\* phase 4 has stored the metrics of a merged table that has null cells
C18_Witness ==
    /\ pc = "save_metrics"
    /\ "success_rate" \in DOMAIN pipeline_metrics
    /\ pipeline_metrics.success_rate > 0
    /\ pipeline_metrics.quality_score < 10000
    /\ loc.null_count > 0

----------------------------------------------------------------------------
(* C19 *)

\* the keys pipeline_metrics.update() of phase 4 adds
Phase4Keys == {"quality_score", "success_rate", "total_duration_seconds"}

\* the keys the except handler writes
HandlerKeys == {"end_time", "status", "errors"}

\* the run of a freshly constructed instance has ended FAILED
EndedFailed == Ended /\ run_no = 1 /\ Status = "FAILED"

\* the FAILED run carries none of the results of phase 4
FailedHasNoPhase4Results ==
    EndedFailed =>
        /\ pipeline_metrics.records_processed = 0
        /\ Phase4Keys \cap DOMAIN pipeline_metrics = {}

\* the FAILED run has the entries of the phases that completed, no others
FailedHasOnlyCompletedPhases ==
    EndedFailed =>
        /\ "loading" \in DOMAIN pipeline_metrics =>
               Invoked("get_load_metrics") /\ loc.e # ErrOf("get_load_metrics")
        /\ "transformation" \in DOMAIN pipeline_metrics =>
               Invoked("transform_and_merge") /\ loc.merged_len > 0

\* the step of the except handler leaves every other key as it was
HandlerFrame ==
    pc = "except" =>
        /\ DOMAIN pipeline_metrics' = DOMAIN pipeline_metrics \cup HandlerKeys
        /\ \A k \in DOMAIN pipeline_metrics \ HandlerKeys :
              pipeline_metrics'[k] = pipeline_metrics[k]

\* C19: a run of a fresh instance that ends FAILED has records_processed 0,
\* no quality_score, success_rate or total_duration_seconds, a 'loading'
\* entry only if the loading phase completed and a 'transformation' entry
\* only if transform_and_merge returned a non-empty table; the except
\* handler changes end_time, status and errors and nothing else
C19_FailedRunFrame ==
    /\ [] FailedHasNoPhase4Results
    /\ [] FailedHasOnlyCompletedPhases
    /\ [][HandlerFrame]_vars

====
